---- MODULE Spec2Model ----
(***************************************************************************)
(* evalInScope.py: eval_in_scope(code, context_as_scope) evaluates a       *)
(* Python expression with                                                  *)
(*     eval(code, {"__builtins__": __builtins__}, context_as_scope)        *)
(* The model covers the expression language the calls exercise (CPython    *)
(* 3.11 semantics of eval with separate globals and locals): integer and   *)
(* None literals, names, + * //, calls, list displays, lambda,             *)
(* parenthesised assignment expressions and list comprehensions.           *)
(* A code string is modelled as its sequence of tokens.                    *)
(***************************************************************************)
EXTENDS Integers, Sequences, FiniteSets, TLC

VARIABLES dicts, frame, prev

vars == <<dicts, frame, prev>>

(* ------------------------------------------------------------------ *)
(* Bounds of the model                                                 *)
(* ------------------------------------------------------------------ *)

\* scope values bound to a, b, x, y range over -MaxInt..MaxInt
MaxInt == 1

(* ------------------------------------------------------------------ *)
(* Runtime values                                                      *)
(* ------------------------------------------------------------------ *)

IntV(k) == [t |-> "int", n |-> k, s |-> "", items |-> <<>>, body |-> <<>>]

NoneV == [t |-> "NoneType", n |-> 0, s |-> "", items |-> <<>>, body |-> <<>>]

List(vs) == [t |-> "list", n |-> 0, s |-> "", items |-> vs, body |-> <<>>]

\* a built-in function object such as <built-in function max>
BuiltinFn(name) == [t |-> "builtin_function", n |-> 0, s |-> name, items |-> <<>>, body |-> <<>>]

\* the function object a lambda expression creates: its body and the local
\* names of the function scopes that enclose it
Function(body, free) ==
    [t |-> "function", n |-> 0, s |-> "<lambda>", items |-> <<>>,
     body |-> <<body, free>>]

\* the module object `builtins` that __builtins__ names in __main__
BuiltinsModule == [t |-> "module", n |-> 0, s |-> "builtins", items |-> <<>>, body |-> <<>>]

\* a module-level def: the function eval_in_scope itself
DefFunction(name) == [t |-> "function", n |-> 0, s |-> name, items |-> <<>>, body |-> <<>>]

\* a reference to a dict object of the heap
DictRef(id) == [t |-> "dict", n |-> 0, s |-> id, items |-> <<>>, body |-> <<>>]

\* what open(...) and __import__(...) hand back
Opaque(kind) == [t |-> kind, n |-> 0, s |-> "", items |-> <<>>, body |-> <<>>]

(* ------------------------------------------------------------------ *)
(* Dicts: finite maps from names to values                             *)
(* ------------------------------------------------------------------ *)

EmptyDict == [k \in {} |-> NoneV]

DictSet(d, name, v) == [k \in DOMAIN d \cup {name} |-> IF k = name THEN v ELSE d[k]]

Dict2(n1, v1, n2, v2) == DictSet(DictSet(EmptyDict, n1, v1), n2, v2)

(* ------------------------------------------------------------------ *)
(* Tokens                                                              *)
(* ------------------------------------------------------------------ *)

Identifiers ==
    {"a", "b", "c", "x", "y", "z", "i", "max", "min", "abs", "open",
     "__import__", "__builtins__", "scope", "eval_in_scope", "code",
     "context_as_scope", "unknown_name"}

NumLit == ("0" :> 0) @@ ("1" :> 1) @@ ("2" :> 2) @@ ("5" :> 5)

Tok(ts, i) == IF i <= Len(ts) THEN ts[i] ELSE "<ENDMARKER>"

(* ------------------------------------------------------------------ *)
(* Parser: the part of eval() that turns the code into an expression   *)
(* tree or fails with SyntaxError.  Nodes are tuples headed by a tag.  *)
(* A parse result is [ok, node, i] with i the next unread position.    *)
(* ------------------------------------------------------------------ *)

NoParse == [ok |-> FALSE, node |-> <<>>, i |-> 0]

Parsed(node, i) == [ok |-> TRUE, node |-> node, i |-> i]

\* One operator per grammar rule, rule by rule as in CPython's grammar:
\*   expression:        lambdef | sum         lambdef: 'lambda' ':' expression
\*   named_expression:  NAME ':=' expression | expression
\*   sum:               term ('+' term)*
\*   term:              primary (('*' | '//') primary)*
\*   primary:           atom ('(' [arguments] ')')*
\*   arguments:         expression (',' expression)*
\*   atom:              NUMBER | 'None' | NAME | '(' named_expression ')'
\*                      | list | listcomp
\*   list:              '[' [named_expression (',' named_expression)*] ']'
\*   listcomp:          '[' named_expression 'for' NAME 'in' sum ']'
\* acc is the node (or the tuple of nodes) read so far by a repetition.
RECURSIVE Parse(_, _, _, _)
Parse(rule, ts, i, acc) ==
    CASE rule = "expression" ->
            IF Tok(ts, i) = "lambda"
            THEN IF Tok(ts, i + 1) # ":" THEN NoParse
                 ELSE LET b == Parse("expression", ts, i + 2, <<>>)
                      IN  IF b.ok THEN Parsed(<<"Lambda", b.node>>, b.i) ELSE NoParse
            ELSE Parse("sum", ts, i, <<>>)
      [] rule = "named_expression" ->
            IF Tok(ts, i) \in Identifiers /\ Tok(ts, i + 1) = ":="
            THEN LET e == Parse("expression", ts, i + 2, <<>>)
                 IN  IF e.ok THEN Parsed(<<"NamedExpr", ts[i], e.node>>, e.i) ELSE NoParse
            ELSE Parse("expression", ts, i, <<>>)
      [] rule = "sum" ->
            LET l == Parse("term", ts, i, <<>>)
            IN  IF l.ok THEN Parse("sum_rest", ts, l.i, l.node) ELSE NoParse
      [] rule = "sum_rest" ->
            IF Tok(ts, i) = "+"
            THEN LET r == Parse("term", ts, i + 1, <<>>)
                 IN  IF r.ok THEN Parse("sum_rest", ts, r.i, <<"BinOp", "+", acc, r.node>>)
                     ELSE NoParse
            ELSE Parsed(acc, i)
      [] rule = "term" ->
            LET l == Parse("primary", ts, i, <<>>)
            IN  IF l.ok THEN Parse("term_rest", ts, l.i, l.node) ELSE NoParse
      [] rule = "term_rest" ->
            IF Tok(ts, i) \in {"*", "//"}
            THEN LET r == Parse("primary", ts, i + 1, <<>>)
                 IN  IF r.ok THEN Parse("term_rest", ts, r.i, <<"BinOp", ts[i], acc, r.node>>)
                     ELSE NoParse
            ELSE Parsed(acc, i)
      [] rule = "primary" ->
            LET a == Parse("atom", ts, i, <<>>)
            IN  IF a.ok THEN Parse("primary_rest", ts, a.i, a.node) ELSE NoParse
      [] rule = "primary_rest" ->
            IF Tok(ts, i) = "("
            THEN IF Tok(ts, i + 1) = ")"
                 THEN Parse("primary_rest", ts, i + 2, <<"Call", acc, <<>>>>)
                 ELSE LET as == Parse("arguments", ts, i + 1, <<>>)
                      IN  IF as.ok
                          THEN Parse("primary_rest", ts, as.i, <<"Call", acc, as.node>>)
                          ELSE NoParse
            ELSE Parsed(acc, i)
      [] rule = "arguments" ->
            LET e == Parse("expression", ts, i, <<>>)
            IN  IF ~e.ok THEN NoParse
                ELSE IF Tok(ts, e.i) = ","
                THEN Parse("arguments", ts, e.i + 1, Append(acc, e.node))
                ELSE IF Tok(ts, e.i) = ")" THEN Parsed(Append(acc, e.node), e.i + 1)
                ELSE NoParse
      [] rule = "atom" ->
            LET tok == Tok(ts, i)
            IN  IF tok \in DOMAIN NumLit
                THEN Parsed(<<"Constant", IntV(NumLit[tok])>>, i + 1)
                ELSE IF tok = "None" THEN Parsed(<<"Constant", NoneV>>, i + 1)
                ELSE IF tok \in Identifiers THEN Parsed(<<"Name", tok>>, i + 1)
                ELSE IF tok = "("
                THEN LET e == Parse("named_expression", ts, i + 1, <<>>)
                     IN  IF e.ok /\ Tok(ts, e.i) = ")" THEN Parsed(e.node, e.i + 1)
                         ELSE NoParse
                ELSE IF tok = "["
                THEN IF Tok(ts, i + 1) = "]" THEN Parsed(<<"List", <<>>>>, i + 2)
                     ELSE LET e == Parse("named_expression", ts, i + 1, <<>>)
                          IN  IF ~e.ok THEN NoParse
                              ELSE IF Tok(ts, e.i) = "for"
                              THEN Parse("listcomp_for", ts, e.i, e.node)
                              ELSE Parse("list_items", ts, e.i, <<e.node>>)
                ELSE NoParse
      [] rule = "listcomp_for" ->
            IF Tok(ts, i + 1) \in Identifiers /\ Tok(ts, i + 2) = "in"
            THEN LET it == Parse("sum", ts, i + 3, <<>>)
                 IN  IF it.ok /\ Tok(ts, it.i) = "]"
                     THEN Parsed(<<"ListComp", acc, ts[i + 1], it.node>>, it.i + 1)
                     ELSE NoParse
            ELSE NoParse
      [] rule = "list_items" ->
            IF Tok(ts, i) = "]" THEN Parsed(<<"List", acc>>, i + 1)
            ELSE IF Tok(ts, i) = ","
            THEN LET e == Parse("named_expression", ts, i + 1, <<>>)
                 IN  IF e.ok THEN Parse("list_items", ts, e.i, Append(acc, e.node))
                     ELSE NoParse
            ELSE NoParse

\* the start rule of eval mode
ParseExpression(ts, i) == Parse("expression", ts, i, <<>>)

(* ------------------------------------------------------------------ *)
(* Symbol table: which names an expression binds, and where            *)
(* ------------------------------------------------------------------ *)

RECURSIVE Targets(_)
RECURSIVE CompTargets(_, _)
RECURSIVE SymtableOK(_, _, _)

\* the names a function body binds with := (its local variables); the
\* targets inside a comprehension bind in the function that contains it
Targets(node) ==
    CASE node[1] = "BinOp" -> Targets(node[3]) \cup Targets(node[4])
      [] node[1] = "Call" ->
            Targets(node[2]) \cup UNION {Targets(node[3][k]) : k \in DOMAIN node[3]}
      [] node[1] = "List" -> UNION {Targets(node[2][k]) : k \in DOMAIN node[2]}
      [] node[1] = "NamedExpr" -> {node[2]} \cup Targets(node[3])
      [] node[1] = "ListComp" -> Targets(node[2]) \cup Targets(node[4])
      [] OTHER -> {}

\* the names bound with := inside a comprehension of module-level code:
\* the compiler declares them global for the whole expression
CompTargets(node, inComp) ==
    CASE node[1] = "BinOp" -> CompTargets(node[3], inComp) \cup CompTargets(node[4], inComp)
      [] node[1] = "Call" ->
            CompTargets(node[2], inComp)
                \cup UNION {CompTargets(node[3][k], inComp) : k \in DOMAIN node[3]}
      [] node[1] = "List" -> UNION {CompTargets(node[2][k], inComp) : k \in DOMAIN node[2]}
      [] node[1] = "NamedExpr" ->
            (IF inComp THEN {node[2]} ELSE {}) \cup CompTargets(node[3], inComp)
      [] node[1] = "ListComp" -> CompTargets(node[2], TRUE) \cup CompTargets(node[4], inComp)
      [] OTHER -> {}

\* SyntaxError of the symbol table pass: := may not rebind the iteration
\* variable of an enclosing comprehension nor appear in its iterable
SymtableOK(node, loopVars, inIter) ==
    CASE node[1] = "BinOp" ->
            SymtableOK(node[3], loopVars, inIter) /\ SymtableOK(node[4], loopVars, inIter)
      [] node[1] = "Call" ->
            /\ SymtableOK(node[2], loopVars, inIter)
            /\ \A k \in DOMAIN node[3] : SymtableOK(node[3][k], loopVars, inIter)
      [] node[1] = "List" -> \A k \in DOMAIN node[2] : SymtableOK(node[2][k], loopVars, inIter)
      [] node[1] = "NamedExpr" ->
            ~inIter /\ node[2] \notin loopVars /\ SymtableOK(node[3], loopVars, inIter)
      [] node[1] = "ListComp" ->
            /\ SymtableOK(node[2], loopVars \cup {node[3]}, inIter)
            /\ SymtableOK(node[4], loopVars, TRUE)
      [] node[1] = "Lambda" -> SymtableOK(node[2], {}, FALSE)
      [] OTHER -> TRUE

\* compile(code, "<string>", "eval"): the whole input must be one expression
Compile(code) ==
    LET r == ParseExpression(code, 1)
    IN  IF r.ok /\ r.i = Len(code) + 1 /\ SymtableOK(r.node, {}, FALSE)
        THEN [ok |-> TRUE, node |-> r.node]
        ELSE [ok |-> FALSE, node |-> <<>>]

(* ------------------------------------------------------------------ *)
(* The built-in namespace that __builtins__ names                      *)
(* ------------------------------------------------------------------ *)

\* the members of the host's builtins module the model carries
BuiltinNames == {"max", "min", "abs", "open", "__import__"}

\* variant: a closed whitelist in place of the builtins module
WhitelistedBuiltins == [name \in {"max", "min", "abs"} |-> BuiltinFn(name)]

HostBuiltins == [name \in BuiltinNames |-> BuiltinFn(name)]

Builtins == HostBuiltins

(* ------------------------------------------------------------------ *)
(* Operators on values                                                 *)
(* ------------------------------------------------------------------ *)

Val(v) == [ok |-> TRUE, val |-> v, exc |-> ""]

Raise(e) == [ok |-> FALSE, val |-> NoneV, exc |-> e]

RECURSIVE Repeat(_, _)
Repeat(vs, k) == IF k <= 0 THEN <<>> ELSE vs \o Repeat(vs, k - 1)

FloorDiv(a, b) == IF b > 0 THEN a \div b ELSE (0 - a) \div (0 - b)

BinaryOp(op, a, b) ==
    IF a.t = "int" /\ b.t = "int"
    THEN CASE op = "+" -> Val(IntV(a.n + b.n))
           [] op = "*" -> Val(IntV(a.n * b.n))
           [] op = "//" -> IF b.n = 0 THEN Raise("ZeroDivisionError")
                           ELSE Val(IntV(FloorDiv(a.n, b.n)))
    ELSE IF op = "+" /\ a.t = "list" /\ b.t = "list" THEN Val(List(a.items \o b.items))
    ELSE IF op = "*" /\ a.t = "list" /\ b.t = "int" THEN Val(List(Repeat(a.items, b.n)))
    ELSE IF op = "*" /\ a.t = "int" /\ b.t = "list" THEN Val(List(Repeat(b.items, a.n)))
    ELSE Raise("TypeError")

\* a < b, a = b, a > b, or "err" where Python's comparison raises TypeError
RECURSIVE Cmp(_, _)
RECURSIVE CmpItems(_, _, _)
Cmp(a, b) ==
    IF a.t = "int" /\ b.t = "int"
    THEN IF a.n < b.n THEN "lt" ELSE IF a.n > b.n THEN "gt" ELSE "eq"
    ELSE IF a.t = "list" /\ b.t = "list" THEN CmpItems(a.items, b.items, 1)
    ELSE "err"

CmpItems(xs, ys, k) ==
    IF k > Len(xs) /\ k > Len(ys) THEN "eq"
    ELSE IF k > Len(xs) THEN "lt"
    ELSE IF k > Len(ys) THEN "gt"
    ELSE IF xs[k] = ys[k] THEN CmpItems(xs, ys, k + 1)
    ELSE Cmp(xs[k], ys[k])

\* max / min over a non-empty sequence: the first extreme item wins
RECURSIVE Extreme(_, _, _, _)
Extreme(want, vs, k, best) ==
    IF k > Len(vs) THEN Val(best)
    ELSE LET c == Cmp(vs[k], best)
         IN  IF c = "err" THEN Raise("TypeError")
             ELSE Extreme(want, vs, k + 1, IF c = want THEN vs[k] ELSE best)

MaxMin(want, args) ==
    IF Len(args) = 0 THEN Raise("TypeError")
    ELSE LET vs == IF Len(args) = 1 THEN args[1].items ELSE args
         IN  IF Len(args) = 1 /\ args[1].t # "list" THEN Raise("TypeError")
             ELSE IF Len(vs) = 0 THEN Raise("ValueError")
             ELSE Extreme(want, vs, 2, vs[1])

\* calling a built-in function object
CallBuiltin(name, args) ==
    CASE name = "max" -> MaxMin("gt", args)
      [] name = "min" -> MaxMin("lt", args)
      [] name = "abs" ->
            IF Len(args) # 1 \/ args[1].t # "int" THEN Raise("TypeError")
            ELSE Val(IntV(IF args[1].n < 0 THEN 0 - args[1].n ELSE args[1].n))
      [] name = "open" ->
            IF Len(args) = 0 \/ args[1].t # "int" THEN Raise("TypeError")
            ELSE IF args[1].n \in {0, 1, 2} THEN Val(Opaque("TextIOWrapper"))
            ELSE Raise("OSError")
      [] name = "__import__" -> Raise("TypeError")


(* ------------------------------------------------------------------ *)
(* Evaluation of the compiled expression                               *)
(*                                                                     *)
(* st  = [L, G, fast, loads]: the locals mapping (the scope), the      *)
(*       globals dict, the local variables of the function scopes      *)
(*       being run, and the log of name resolutions                    *)
(* ctx = [nested, store, own, bound, globalNames]: whether the code    *)
(*       runs in a function scope (lambda body, comprehension), where  *)
(*       := stores, the local names of the current and of all          *)
(*       enclosing function scopes, and the names declared global      *)
(* A result is [ok, val, exc, st].                                     *)
(* ------------------------------------------------------------------ *)

Ok(v, st) == [ok |-> TRUE, val |-> v, exc |-> "", st |-> st]

Err(e, st) == [ok |-> FALSE, val |-> NoneV, exc |-> e, st |-> st]

Logged(st, name, tier) ==
    [st EXCEPT !.loads = @ \cup {[name |-> name, tier |-> tier,
                                  inScope |-> name \in DOMAIN st.L]}]

\* eval inserts __builtins__ into a globals dict that lacks the key
WithBuiltins(G) ==
    IF "__builtins__" \in DOMAIN G THEN G ELSE DictSet(G, "__builtins__", BuiltinsModule)

\* the namespace the __builtins__ entry of the globals dict stands for
BuiltinsOf(G) == IF G["__builtins__"] = BuiltinsModule THEN Builtins ELSE EmptyDict

\* LOAD_GLOBAL: the globals dict, then the namespace its __builtins__ names
LoadGlobal(name, st) ==
    IF name \in DOMAIN st.G THEN Ok(st.G[name], Logged(st, name, "globals"))
    ELSE IF name \in DOMAIN BuiltinsOf(st.G)
    THEN Ok(BuiltinsOf(st.G)[name], Logged(st, name, "builtins"))
    ELSE Err("NameError", Logged(st, name, "unresolved"))

\* LOAD_NAME: the locals mapping first, then as LOAD_GLOBAL
LoadNameScopeFirst(name, st) ==
    IF name \in DOMAIN st.L THEN Ok(st.L[name], Logged(st, name, "scope"))
    ELSE LoadGlobal(name, st)

LoadName(name, st) == LoadNameScopeFirst(name, st)

\* a name of the expression: module-level code uses LOAD_NAME; code in a
\* function scope uses its local variables or LOAD_GLOBAL
Load(name, ctx, st) ==
    IF name \in ctx.bound
    THEN IF name \in DOMAIN st.fast THEN Ok(st.fast[name], Logged(st, name, "fast"))
         ELSE Err(IF name \in ctx.own THEN "UnboundLocalError" ELSE "NameError",
                  Logged(st, name, "unresolved"))
    ELSE IF ctx.nested \/ name \in ctx.globalNames THEN LoadGlobal(name, st)
    ELSE LoadName(name, st)

\* the target of := : STORE_NAME into the locals mapping at module level,
\* STORE_GLOBAL from a module-level comprehension, a local in a function
Store(name, v, ctx, st) ==
    IF ctx.store = "fast" THEN [st EXCEPT !.fast = DictSet(@, name, v)]
    ELSE IF ctx.store = "G" \/ name \in ctx.globalNames
    THEN [st EXCEPT !.G = DictSet(@, name, v)]
    ELSE [st EXCEPT !.L = DictSet(@, name, v)]

ModuleCtx(node) ==
    [nested |-> FALSE, store |-> "L", own |-> {}, bound |-> {},
     globalNames |-> CompTargets(node, FALSE)]

LambdaCtx(f) ==
    [nested |-> TRUE, store |-> "fast", own |-> Targets(f.body[1]),
     bound |-> f.body[2] \cup Targets(f.body[1]), globalNames |-> {}]

CompCtx(ctx, var) ==
    [nested |-> TRUE, store |-> IF ctx.store = "L" THEN "G" ELSE ctx.store,
     own |-> {var}, bound |-> ctx.bound \cup {var}, globalNames |-> ctx.globalNames]

Without(d, names) == [k \in DOMAIN d \ names |-> d[k]]

\* d with the bindings of `names` put back as they are in old
Restored(d, old, names) ==
    [k \in (DOMAIN d \ names) \cup (DOMAIN old \cap names) |->
        IF k \in names THEN old[k] ELSE d[k]]

\* Run(what, x, ctx, st) is the interpreter loop:
\*   "eval"  the expression x.node
\*   "seq"   the expressions x.nodes from position x.k on, left to right;
\*           val is the tuple of their values after those of x.acc
\*   "comp"  the rounds of a comprehension from item x.k on: bind x.var,
\*           evaluate x.elt
\*   "call"  the call x.f(*x.args)
RECURSIVE Run(_, _, _, _)
Run(what, x, ctx, st) ==
    CASE what = "eval" /\ x.node[1] = "Constant" -> Ok(x.node[2], st)
      [] what = "eval" /\ x.node[1] = "Name" -> Load(x.node[2], ctx, st)
      [] what = "eval" /\ x.node[1] = "BinOp" ->
            LET l == Run("eval", [node |-> x.node[3]], ctx, st)
            IN  IF ~l.ok THEN l
                ELSE LET r == Run("eval", [node |-> x.node[4]], ctx, l.st)
                     IN  IF ~r.ok THEN r
                         ELSE LET v == BinaryOp(x.node[2], l.val, r.val)
                              IN  IF v.ok THEN Ok(v.val, r.st) ELSE Err(v.exc, r.st)
      [] what = "eval" /\ x.node[1] = "List" ->
            LET r == Run("seq", [nodes |-> x.node[2], k |-> 1, acc |-> <<>>], ctx, st)
            IN  IF r.ok THEN Ok(List(r.val), r.st) ELSE r
      [] what = "eval" /\ x.node[1] = "Lambda" -> Ok(Function(x.node[2], ctx.bound), st)
      [] what = "eval" /\ x.node[1] = "NamedExpr" ->
            LET r == Run("eval", [node |-> x.node[3]], ctx, st)
            IN  IF r.ok THEN Ok(r.val, Store(x.node[2], r.val, ctx, r.st)) ELSE r
      [] what = "eval" /\ x.node[1] = "Call" ->
            LET f == Run("eval", [node |-> x.node[2]], ctx, st)
            IN  IF ~f.ok THEN f
                ELSE LET as == Run("seq", [nodes |-> x.node[3], k |-> 1, acc |-> <<>>],
                                   ctx, f.st)
                     IN  IF as.ok THEN Run("call", [f |-> f.val, args |-> as.val], ctx, as.st)
                         ELSE as
      [] what = "eval" /\ x.node[1] = "ListComp" ->
            \* the iterable is evaluated in the enclosing scope
            LET it == Run("eval", [node |-> x.node[4]], ctx, st)
            IN  IF ~it.ok THEN it
                ELSE IF it.val.t # "list" THEN Err("TypeError", it.st)
                ELSE LET r == Run("comp", [elt |-> x.node[2], var |-> x.node[3],
                                           items |-> it.val.items, k |-> 1, acc |-> <<>>],
                                  CompCtx(ctx, x.node[3]), it.st)
                         back == [r.st EXCEPT !.fast = Restored(@, st.fast, {x.node[3]})]
                     IN  IF r.ok THEN Ok(List(r.val), back) ELSE Err(r.exc, back)
      [] what = "seq" ->
            IF x.k > Len(x.nodes) THEN Ok(x.acc, st)
            ELSE LET r == Run("eval", [node |-> x.nodes[x.k]], ctx, st)
                 IN  IF r.ok
                     THEN Run("seq", [x EXCEPT !.k = @ + 1, !.acc = Append(@, r.val)],
                              ctx, r.st)
                     ELSE r
      [] what = "comp" ->
            IF x.k > Len(x.items) THEN Ok(x.acc, st)
            ELSE LET r == Run("eval", [node |-> x.elt], ctx,
                              [st EXCEPT !.fast = DictSet(@, x.var, x.items[x.k])])
                 IN  IF r.ok
                     THEN Run("comp", [x EXCEPT !.k = @ + 1, !.acc = Append(@, r.val)],
                              ctx, r.st)
                     ELSE r
      [] what = "call" ->
            IF x.f.t = "builtin_function"
            THEN LET v == CallBuiltin(x.f.s, x.args)
                 IN  IF v.ok THEN Ok(v.val, st) ELSE Err(v.exc, st)
            ELSE IF x.f.t = "function" /\ x.f.body # <<>>
            THEN IF Len(x.args) # 0 THEN Err("TypeError", st)
                 ELSE LET c == LambdaCtx(x.f)
                          r == Run("eval", [node |-> x.f.body[1]], c,
                                   [st EXCEPT !.fast = Without(@, c.own)])
                      IN  [r EXCEPT !.st.fast = st.fast]
            ELSE Err("TypeError", st)

\* the expression as module-level code of eval
Eval(node, ctx, st) == Run("eval", [node |-> node], ctx, st)

(* ------------------------------------------------------------------ *)
(* The program state                                                   *)
(*   dicts : the dict objects alive, by identity                       *)
(*           "module"        the module's global namespace             *)
(*           "scope"         the dict of the module variable `scope`   *)
(*           "other"         another mapping a caller owns             *)
(*           GlobalsId(t)    the globals dict built for t's call       *)
(*   frame : per thread, the call of eval_in_scope it is in            *)
(* ------------------------------------------------------------------ *)

Threads == {"t1", "t2"}

ScopeIds == {"scope", "other"}

GlobalsId(t) == IF t = "t1" THEN "g1" ELSE "g2"

\* scope = {'a': 11, 'b': 22, 'c': 33}
ModuleScope == DictSet(Dict2("a", IntV(11), "b", IntV(22)), "c", IntV(33))

Ints == (0 - MaxInt) .. MaxInt

\* the mappings a caller passes as context_as_scope
ScopeDisplays(sid) ==
    IF sid = "scope"
    THEN {ModuleScope}
            \cup {Dict2("a", IntV(p), "b", IntV(q)) : p, q \in Ints}
            \cup {Dict2("x", IntV(p), "y", IntV(q)) : p, q \in Ints}
    ELSE {Dict2("a", IntV(2), "b", IntV(3)), Dict2("x", IntV(10), "y", IntV(20)),
          EmptyDict, DictSet(EmptyDict, "max", IntV(5)), Dict2("a", IntV(1), "b", NoneV)}

\* the code strings of the calls, as token sequences
Codes ==
    {<<"a", "+", "b">>,
     <<"max", "(", "x", ",", "y", ")">>,
     <<"a", "+", "b", "+", "c">>,
     <<"b", "*", "2">>,
     <<"max", "(", "1", ",", "2", ")">>,
     <<"max">>,
     <<"(", "lambda", ":", "max", ")", "(", ")">>,
     <<"unknown_name">>,
     <<"a", "+">>,
     <<"1", "//", "0">>,
     <<"a", "(", ")">>,
     <<"a", "+", "None">>,
     <<"(", "z", ":=", "5", ")">>,
     <<"z">>,
     <<"[", "(", "z", ":=", "5", ")", "for", "i", "in", "[", "0", "]", "]">>,
     <<"(", "lambda", ":", "z", ")", "(", ")">>,
     <<"[", "(", "z", ":=", "5", ")", "for", "i", "in", "[", "0", "]", "]",
       "+", "[", "(", "lambda", ":", "z", ")", "(", ")", "]">>,
     <<"open">>,
     <<"__import__">>,
     <<"__builtins__">>,
     <<"scope">>,
     <<"eval_in_scope">>,
     <<"code">>,
     <<"context_as_scope">>}

\* the calls that run side by side
ConcCodes ==
    {<<"a", "+", "b">>,
     <<"max", "(", "x", ",", "y", ")">>,
     <<"(", "z", ":=", "5", ")">>,
     <<"z">>,
     <<"[", "(", "z", ":=", "5", ")", "for", "i", "in", "[", "0", "]", "]">>,
     <<"(", "lambda", ":", "z", ")", "(", ")">>,
     <<"a", "+">>}

NoOutcome == [returned |-> <<>>, raised |-> <<>>]

\* before, loads and shared are records of the call kept for the properties:
\* the scope's contents when the call began, the name resolutions of the
\* evaluation, and whether another call used the same scope meanwhile
IdleFrame ==
    [pc |-> "idle", code |-> <<>>, scope |-> "none", locals |-> "none",
     globals |-> "none", node |-> <<>>, outcome |-> NoOutcome,
     before |-> EmptyDict, loads |-> {}, shared |-> FALSE]

\* how the call before the current one ended, and on which scope
NoPrev == [kind |-> "none", scope |-> "none"]

\* the module namespace once the file has run: __builtins__, the def of
\* line 19 and the assignment of line 55
ModuleGlobals ==
    DictSet(Dict2("__builtins__", BuiltinsModule, "eval_in_scope", DefFunction("eval_in_scope")),
            "scope", DictRef("scope"))

Init ==
    /\ dicts = [id \in {"module", "scope", "other"} |->
                   CASE id = "module" -> ModuleGlobals
                     [] id = "scope" -> ModuleScope
                     [] id = "other" -> Dict2("a", IntV(2), "b", IntV(3))]
    /\ frame = [t \in Threads |-> IdleFrame]
    /\ prev = NoPrev

(* ------------------------------------------------------------------ *)
(* eval_in_scope                                                       *)
(* ------------------------------------------------------------------ *)

\* variant: {"__builtins__": None}, no built-in reachable
NoBuiltinsDisplay == DictSet(EmptyDict, "__builtins__", NoneV)

\* the dict display {"__builtins__": __builtins__}
BuiltinsDisplay == DictSet(EmptyDict, "__builtins__", BuiltinsModule)

NewGlobals == BuiltinsDisplay

\* the globals argument of eval: a dict built anew for this call
GlobalsFresh(t) == [id |-> GlobalsId(t), fresh |-> TRUE]

\* variant: eval(code, globals(), context_as_scope)
GlobalsOfModule(t) == [id |-> "module", fresh |-> FALSE]

GlobalsArg(t) == GlobalsFresh(t)

\* the locals argument of eval: context_as_scope itself, not a copy
LocalsScope(t, sid) == sid

\* variant: eval(code, {...}) with the locals argument left out, so that
\* the globals dict serves as locals too
LocalsOmitted(t, sid) == GlobalsId(t)

LocalsArg(t, sid) == LocalsScope(t, sid)

\* `return eval(...)`: the value is handed back as it is, an exception of
\* eval leaves the function as it is
Passed(r) ==
    IF r.ok THEN [returned |-> <<r.val>>, raised |-> <<>>]
    ELSE [returned |-> <<>>, raised |-> <<r.exc>>]

\* variant: every exception wrapped into one error class
Wrapped(r) ==
    IF r.ok THEN [returned |-> <<r.val>>, raised |-> <<>>]
    ELSE [returned |-> <<>>, raised |-> <<"EvaluationError">>]

\* variant: try: return eval(...) / except Exception: return None
Swallowed(r) == [returned |-> <<IF r.ok THEN r.val ELSE NoneV>>, raised |-> <<>>]

Outcome(r) == Passed(r)

Active(sid) == {t \in Threads : frame[t].pc # "idle" /\ frame[t].scope = sid}

\* a caller builds a mapping (a dict display) in the dict it owns
CallerDict(sid, d) ==
    /\ Active(sid) = {}
    /\ dicts[sid] # d
    /\ dicts' = [dicts EXCEPT ![sid] = d]
    /\ UNCHANGED <<frame, prev>>

\* eval_in_scope(code, context_as_scope) is entered and the arguments of
\* eval are evaluated
Call(t, code, sid) ==
    /\ frame[t].pc = "idle"
    /\ LET g == GlobalsArg(t)
       IN  /\ dicts' = IF g.fresh
                       THEN [id \in DOMAIN dicts \cup {g.id} |->
                                IF id = g.id THEN NewGlobals ELSE dicts[id]]
                       ELSE dicts
           /\ frame' = [u \in Threads |->
                          IF u = t
                          THEN [IdleFrame EXCEPT !.pc = "called", !.code = code,
                                   !.scope = sid, !.locals = LocalsArg(t, sid),
                                   !.globals = g.id,
                                   !.before = dicts[sid],
                                   !.shared = (Active(sid) # {})]
                          ELSE IF u \in Active(sid) THEN [frame[u] EXCEPT !.shared = TRUE]
                          ELSE frame[u]]
    /\ UNCHANGED prev

\* eval compiles the code; a SyntaxError ends the call
CompileStep(t) ==
    /\ frame[t].pc = "called"
    /\ LET c == Compile(frame[t].code)
       IN  frame' = [frame EXCEPT ![t] =
                        IF c.ok THEN [@ EXCEPT !.pc = "compiled", !.node = c.node]
                        ELSE [@ EXCEPT !.pc = "done",
                                       !.outcome = Outcome(Err("SyntaxError", <<>>))]]
    /\ UNCHANGED <<dicts, prev>>

\* eval runs the compiled expression with the two mappings
Exec(t) ==
    /\ frame[t].pc = "compiled"
    /\ LET f == frame[t]
           r == Eval(f.node, ModuleCtx(f.node),
                     [L |-> dicts[f.locals], G |-> WithBuiltins(dicts[f.globals]),
                      fast |-> EmptyDict, loads |-> {}])
       IN  /\ dicts' = [dicts EXCEPT ![f.locals] = r.st.L, ![f.globals] = r.st.G]
           /\ frame' = [frame EXCEPT ![t] =
                           [@ EXCEPT !.pc = "done", !.outcome = Outcome(r),
                                     !.loads = r.st.loads]]
    /\ UNCHANGED prev

\* the call is over: the caller has the outcome, the frame and the globals
\* dict built for the call are gone
Return(t) ==
    /\ frame[t].pc = "done"
    /\ frame' = [frame EXCEPT ![t] = IdleFrame]
    /\ dicts' = IF frame[t].globals = GlobalsId(t)
                THEN [id \in DOMAIN dicts \ {GlobalsId(t)} |-> dicts[id]]
                ELSE dicts
    /\ prev' = [kind |-> IF frame[t].outcome.raised # <<>> THEN "raised" ELSE "returned",
                scope |-> frame[t].scope]

\* one caller, one call after the other
Next ==
    \/ /\ frame["t1"].pc = "idle"
       /\ \E sid \in ScopeIds : \E d \in ScopeDisplays(sid) : CallerDict(sid, d)
    \/ \E code \in Codes, sid \in ScopeIds : Call("t1", code, sid)
    \/ CompileStep("t1")
    \/ Exec("t1")
    \/ Return("t1")

Spec == Init /\ [][Next]_vars

\* the mappings the callers of the concurrent calls build
ConcDisplays(sid) ==
    IF sid = "scope" THEN {ModuleScope, Dict2("x", IntV(1), "y", IntV(0))}
    ELSE {Dict2("a", IntV(2), "b", IntV(3)), Dict2("x", IntV(10), "y", IntV(20))}

\* calls of two threads side by side
NextConc ==
    \/ \E sid \in ScopeIds : \E d \in ConcDisplays(sid) : CallerDict(sid, d)
    \/ \E t \in Threads : \E code \in ConcCodes, sid \in ScopeIds : Call(t, code, sid)
    \/ \E t \in Threads : CompileStep(t)
    \/ \E t \in Threads : Exec(t)
    \/ \E t \in Threads : Return(t)

SpecConc == Init /\ [][NextConc]_vars
(* ------------------------------------------------------------------ *)
(* Properties                                                          *)
(* ------------------------------------------------------------------ *)

Done(t) == frame[t].pc = "done"

\* what a call yields when it runs by itself on a mapping with contents L
\* and a namespace that holds nothing but the host's built-ins
Alone(code, L) ==
    LET c == Compile(code)
        r == Eval(c.node, ModuleCtx(c.node),
                  [L |-> L, G |-> DictSet(EmptyDict, "__builtins__", BuiltinsModule),
                   fast |-> EmptyDict, loads |-> {}])
    IN  IF ~c.ok THEN [returned |-> <<>>, raised |-> <<"SyntaxError">>, L |-> L]
        ELSE IF r.ok THEN [returned |-> <<r.val>>, raised |-> <<>>, L |-> r.st.L]
        ELSE [returned |-> <<>>, raised |-> <<r.exc>>, L |-> r.st.L]

\* every name the expression binds itself (targets of := and iteration
\* variables), wherever in the expression
RECURSIVE BoundIn(_)
BoundIn(node) ==
    CASE node[1] = "BinOp" -> BoundIn(node[3]) \cup BoundIn(node[4])
      [] node[1] = "Call" -> BoundIn(node[2]) \cup UNION {BoundIn(node[3][k]) : k \in DOMAIN node[3]}
      [] node[1] = "List" -> UNION {BoundIn(node[2][k]) : k \in DOMAIN node[2]}
      [] node[1] = "NamedExpr" -> {node[2]} \cup BoundIn(node[3])
      [] node[1] = "ListComp" -> {node[3]} \cup BoundIn(node[2]) \cup BoundIn(node[4])
      [] node[1] = "Lambda" -> BoundIn(node[2])
      [] OTHER -> {}

IsInt(d, name) == name \in DOMAIN d /\ d[name].t = "int"

\* C1 (as claimed): every name that is a scope key and also a built-in name
\* resolves to the scope's value, wherever the expression refers to it.
C1_ScopeShadowsBuiltinEverywhere ==
    \A t \in Threads : Done(t) =>
        \A ld \in frame[t].loads :
            (ld.inScope /\ ld.name \in BuiltinNames) => ld.tier = "scope"

\* C2 (as claimed): a name that is neither a scope key nor a built-in name
\* (nor bound by the expression itself) never resolves.
C2_OnlyScopeAndBuiltins ==
    \A t \in Threads : Done(t) =>
        \A ld \in frame[t].loads :
            (~ld.inScope /\ ld.name \notin BuiltinNames /\ ld.name \notin BoundIn(frame[t].node))
                => ld.tier = "unresolved"

\* C2 (amended): a name that is neither a scope key, nor a built-in name, nor
\* the globals key __builtins__ (nor bound by the expression itself) does not
\* resolve and the call raises NameError: the module's globals scope and
\* eval_in_scope, the locals code and context_as_scope of the calling
\* function, and a name bound only in another call's scope are invisible.
C2_OnlyScopeBuiltinsAndBuiltinsKey ==
    \A t \in Threads : Done(t) =>
        /\ \A ld \in frame[t].loads :
              (/\ ~ld.inScope
               /\ ld.name \notin BuiltinNames \cup {"__builtins__"}
               /\ ld.name \notin BoundIn(frame[t].node))
                  => ld.tier = "unresolved" /\ frame[t].outcome.raised = <<"NameError">>
        /\ \A ld \in frame[t].loads :
              (ld.tier = "globals" /\ ld.name \notin BoundIn(frame[t].node))
                  => ld.name = "__builtins__"
        /\ (/\ frame[t].code \in {<<"scope">>, <<"eval_in_scope">>, <<"code">>,
                                  <<"context_as_scope">>, <<"z">>}
            /\ frame[t].code[1] \notin DOMAIN frame[t].before)
              => frame[t].outcome = [returned |-> <<>>, raised |-> <<"NameError">>]

C2_Witness ==
    /\ Done("t1")
    /\ frame["t1"].code = <<"scope">>
    /\ "scope" \in DOMAIN dicts["module"]
    /\ frame["t1"].outcome.raised = <<"NameError">>

\* C3 (as claimed): every failure reaches the caller as the single error
\* kind EvaluationError.
C3_SingleErrorKind ==
    \A t \in Threads :
        (Done(t) /\ frame[t].outcome.raised # <<>>)
            => frame[t].outcome.raised = <<"EvaluationError">>

\* C3 (amended): every failure reaches the caller as the host's own
\* exception, unwrapped and of the class of the fault: SyntaxError for an
\* invalid expression, NameError for a name neither in the scope nor built
\* in, ZeroDivisionError for a division by zero, TypeError for invalid
\* operand types and for calling a non-callable.
C3_HostExceptionPerFault ==
    \A t \in Threads : Done(t) =>
        LET f == frame[t]
            raises(e) == f.outcome = [returned |-> <<>>, raised |-> <<e>>]
        IN  /\ f.outcome.raised # <<>> =>
                  f.outcome.raised[1] \in {"SyntaxError", "NameError", "UnboundLocalError",
                                           "ZeroDivisionError", "TypeError", "ValueError",
                                           "OSError"}
            /\ ~Compile(f.code).ok => raises("SyntaxError")
            /\ f.code = <<"a", "+">> => raises("SyntaxError")
            /\ f.code = <<"unknown_name">> => raises("NameError")
            /\ f.code = <<"1", "//", "0">> => raises("ZeroDivisionError")
            /\ (f.code = <<"a", "+", "None">> /\ IsInt(f.before, "a")) => raises("TypeError")
            /\ (f.code = <<"a", "(", ")">> /\ IsInt(f.before, "a")) => raises("TypeError")

C3_Witness ==
    /\ Done("t1")
    /\ frame["t1"].code = <<"1", "//", "0">>
    /\ frame["t1"].outcome.raised = <<"ZeroDivisionError">>

\* C4: a finished call has exactly one outcome, a returned value or a raised
\* error; a fault of parsing or evaluation returns no value and is raised,
\* a success returns the computed value itself.
C4_ExactlyOneOutcome ==
    \A t \in Threads : Done(t) =>
        LET f == frame[t]
            a == Alone(f.code, f.before)
        IN  /\ Len(f.outcome.returned) + Len(f.outcome.raised) = 1
            /\ a.raised # <<>> => (f.outcome.returned = <<>> /\ f.outcome.raised = a.raised)
            /\ a.raised = <<>> => (f.outcome.raised = <<>> /\ f.outcome.returned = a.returned)

C4_Witness ==
    /\ Done("t1")
    /\ frame["t1"].code = <<"a", "+", "None">>
    /\ IsInt(frame["t1"].before, "a")
    /\ frame["t1"].outcome = [returned |-> <<>>, raised |-> <<"TypeError">>]

\* C5 (as claimed): the host's file opening and module import facilities are
\* not exposed: open and __import__ do not resolve unless the scope has them.
C5_ClosedWhitelist ==
    \A t \in Threads :
        (/\ Done(t)
         /\ frame[t].code \in {<<"open">>, <<"__import__">>}
         /\ frame[t].code[1] \notin DOMAIN frame[t].before)
            => frame[t].outcome.raised = <<"NameError">>

\* C5 (amended): beyond the scope an expression reaches the host's whole
\* built-in namespace, the same for every call: max, min and abs, and open
\* and __import__ as well; no whitelist narrows it.
C5_WholeBuiltinNamespace ==
    \A t \in Threads : Done(t) =>
        /\ \A ld \in frame[t].loads : ld.tier = "builtins" => ld.name \in BuiltinNames
        /\ \A name \in BuiltinNames :
              (frame[t].code = <<name>> /\ name \notin DOMAIN frame[t].before)
                  => frame[t].outcome = [returned |-> <<BuiltinFn(name)>>, raised |-> <<>>]

C5_Witness ==
    /\ Done("t1")
    /\ frame["t1"].code = <<"open">>
    /\ frame["t1"].outcome.returned = <<BuiltinFn("open")>>

\* C6: "a + b" on a scope that binds a and b to integers returns their sum,
\* both names read from the scope.
C6_SumOfScopeValues ==
    \A t \in Threads :
        (/\ Done(t)
         /\ frame[t].code = <<"a", "+", "b">>
         /\ IsInt(frame[t].before, "a") /\ IsInt(frame[t].before, "b"))
            => /\ frame[t].outcome =
                    [returned |-> <<IntV(frame[t].before["a"].n + frame[t].before["b"].n)>>,
                     raised |-> <<>>]
               /\ \A ld \in frame[t].loads : ld.tier = "scope"

C6_Witness ==
    /\ Done("t1")
    /\ frame["t1"].code = <<"a", "+", "b">>
    /\ frame["t1"].before = Dict2("a", IntV(0 - MaxInt), "b", IntV(MaxInt))
    /\ frame["t1"].outcome.returned = <<IntV(0)>>

\* C7: "max(x, y)" takes max from the built-ins and x, y from the scope: it
\* returns the larger value, the same with the two values swapped; and
\* "max(1, 2)" on the empty scope returns 2.
C7_BuiltinOverScopeArguments ==
    \A t \in Threads : Done(t) =>
        LET f == frame[t]
        IN  /\ (/\ f.code = <<"max", "(", "x", ",", "y", ")">>
                /\ IsInt(f.before, "x") /\ IsInt(f.before, "y")
                /\ "max" \notin DOMAIN f.before)
                  => /\ f.outcome =
                          [returned |-> <<IF f.before["x"].n >= f.before["y"].n
                                          THEN f.before["x"] ELSE f.before["y"]>>,
                           raised |-> <<>>]
                     /\ f.outcome.returned =
                          Alone(f.code, Dict2("x", f.before["y"], "y", f.before["x"])).returned
                     /\ \A ld \in f.loads :
                          ld.tier = IF ld.name = "max" THEN "builtins" ELSE "scope"
            /\ (f.code = <<"max", "(", "1", ",", "2", ")">> /\ f.before = EmptyDict)
                  => f.outcome = [returned |-> <<IntV(2)>>, raised |-> <<>>]

C7_Witness ==
    /\ Done("t1")
    /\ frame["t1"].code = <<"max", "(", "x", ",", "y", ")">>
    /\ frame["t1"].before = Dict2("x", IntV(10), "y", IntV(20))
    /\ frame["t1"].outcome.returned = <<IntV(20)>>

\* C8: whatever calls came before, the outcome of a call is the outcome the
\* code has by itself on the scope's current contents; on the scope
\* {a: 11, b: 22, c: 33}, "a + b + c" returns 66 and "b * 2" returns 44.
C8_Stateless ==
    \A t \in Threads : Done(t) =>
        LET f == frame[t]
            a == Alone(f.code, f.before)
        IN  /\ f.outcome = [returned |-> a.returned, raised |-> a.raised]
            /\ (f.code = <<"a", "+", "b", "+", "c">> /\ f.before = ModuleScope)
                  => f.outcome.returned = <<IntV(66)>>
            /\ (f.code = <<"b", "*", "2">> /\ f.before = ModuleScope)
                  => f.outcome.returned = <<IntV(44)>>

C8_Witness ==
    /\ Done("t1")
    /\ prev = [kind |-> "returned", scope |-> "scope"]
    /\ frame["t1"].scope = "scope"
    /\ frame["t1"].before = ModuleScope
    /\ frame["t1"].code = <<"b", "*", "2">>
    /\ frame["t1"].outcome.returned = <<IntV(44)>>

\* C9: a call whose scope no other call used while it ran has, under every
\* interleaving with the calls of the other thread, the outcome and the
\* effect on its scope that it has when it runs alone.
C9_NoInterference ==
    \A t \in Threads :
        (Done(t) /\ ~frame[t].shared) =>
            LET f == frame[t]
                a == Alone(f.code, f.before)
            IN  /\ f.outcome = [returned |-> a.returned, raised |-> a.raised]
                /\ dicts[f.scope] = a.L

C9_Witness ==
    /\ Done("t1") /\ Done("t2")
    /\ ~frame["t1"].shared /\ ~frame["t2"].shared
    /\ frame["t1"].code = <<"(", "lambda", ":", "z", ")", "(", ")">>
    /\ frame["t2"].code = <<"[", "(", "z", ":=", "5", ")", "for", "i", "in", "[", "0", "]", "]">>
    /\ frame["t1"].outcome.raised = <<"NameError">>
    /\ frame["t2"].outcome.raised = <<>>

\* C10 (as claimed): when a call is over, its scope has exactly the keys and
\* values it had before the call.
C10_ScopeUnchanged ==
    \A t \in Threads : Done(t) => dicts[frame[t].scope] = frame[t].before
====
